---- MODULE Spec2Model ----
(***************************************************************************)
(* Model of the Streamlit maintenance pages of the repository:             *)
(*   pages/2_GenAI_Maintenance_Assistant.py   (engine page)                *)
(*   pages/4_Aviation_Twin_and_GenAI.py       (aviation heuristic block)   *)
(*   pages/5_Healthcare_Twin_and_GenAI.py     (healthcare heuristic block) *)
(*                                                                         *)
(* A page is a script that Streamlit runs top to bottom on every widget    *)
(* interaction.  What survives a run is the widget state (slider, toggles) *)
(* and the cached data frame; everything else is recomputed.  An action of *)
(* the model is one such run, triggered by one interaction.                *)
(*                                                                         *)
(* Conventions.                                                            *)
(*  - A text is a sequence of tokens; "\n" is the newline token, " " the   *)
(*    blank, "-" and Bullet the two bullet markers.  Every other token is  *)
(*    a piece of text without newline that neither starts nor ends with    *)
(*    white space and does not start with a bullet marker.  Non-ASCII      *)
(*    characters of the source messages are written in ASCII.              *)
(*  - Vibration and magnet temperature are in tenths of their unit, so     *)
(*    that means are compared exactly: mean(xs) > 7.0 is                   *)
(*    sum(xs) > 70 * len(xs).  The mean of no value is NaN, and every      *)
(*    comparison with NaN is false.                                        *)
(*  - Timestamps are minutes.                                              *)
(***************************************************************************)
EXTENDS Integers, Sequences, FiniteSets, TLC

VARIABLES
    page,            \* which page script this session runs
    prompt,          \* st.session_state.prompt, the issue description
    df,              \* the page's data frame: a sequence of rows
    window_minutes,  \* the slider "Analysis window (minutes)"
    use_llm,         \* the toggle "Use OpenAI"
    concise,         \* the toggle "3-sentence summary (presentation)"
    llm_reply,       \* the text the external service answers with when it answers
    llm_env,         \* the environment the last llm_advice call ran in, or NoEnv
    outcome,         \* "idle": no analysis shown, "shown", or "raised"
    assessment,      \* risk, actions, eta of the last rule evaluation, or NoAssessment
    raw,             \* the Analyze handler's raw
    shown,           \* the text of st.markdown(make_concise(raw))
    ticket,          \* the Export handler's ticket, or NoTicket
    first_eval,      \* history: the session's first call of rule_based_advice
    scenarios,       \* st.session_state.scenarios of the Digital Twin page
    name,            \* the text input "Save scenario as"
    controls,        \* the sidebar sliders of the Digital Twin page
    saves            \* history: the presses of "Save scenario", in order

vars == <<page, prompt, df, window_minutes, use_llm, concise, llm_reply, llm_env,
          outcome, assessment, raw, shown, ticket, first_eval,
          scenarios, name, controls, saves>>

\* the state of the Digital Twin page
scheduling == <<scenarios, name, controls, saves>>

-----------------------------------------------------------------------------
(* Bounds of the model *)

\* longest engine data frame
MaxSamples == 22
\* longest data frame with freely ordered timestamps
MaxShuffled == 3
\* most lines of a text answered by the external service
MaxLines == 4

-----------------------------------------------------------------------------
(* pandas / Python helpers *)

NL == "\n"
Bullet == "u2022"
NoText == <<"(none)">>
NoAssessment == [risk |-> <<>>, actions |-> <<>>, eta |-> "(none)"]
NoEnv == [key |-> "(none)", importable |-> FALSE, modern |-> "(none)", legacy |-> "(none)"]
NoTicket == [issue |-> "(none)", rul_days |-> 0]
NoEval == [made |-> FALSE, slice |-> <<>>, prompt |-> "(none)",
           locals |-> NoAssessment, msg |-> NoText]

\* Series.tail(n): the last n values, all of them when there are fewer
tail(s, n) == IF Len(s) <= n THEN s ELSE SubSeq(s, Len(s) - n + 1, Len(s))

\* frame[col]
Column(frame, col) == [i \in 1..Len(frame) |-> frame[i][col]]

RECURSIVE SeqSum(_)
SeqSum(s) == IF s = <<>> THEN 0 ELSE Head(s) + SeqSum(Tail(s))

\* Series.mean(), kept exact as sum and count; count = 0 is NaN
mean(s) == [sum |-> SeqSum(s), count |-> Len(s)]

\* m > limit for a mean m; False for NaN
MeanGT(m, limit) == m.count > 0 /\ m.sum > limit * m.count

\* m < limit for a mean m; False for NaN
MeanLT(m, limit) == m.count > 0 /\ m.sum < limit * m.count

\* value in Series.values
Contains(s, value) == \E i \in 1..Len(s) : s[i] = value

\* sep.join(items), each item one token
RECURSIVE Join(_, _)
Join(sep, items) ==
    IF items = <<>> THEN <<>>
    ELSE IF Len(items) = 1 THEN <<Head(items)>>
    ELSE <<Head(items)>> \o sep \o Join(sep, Tail(items))

\* sep.join(lines), each line a sequence of tokens
RECURSIVE JoinLines(_, _)
JoinLines(sep, lines) ==
    IF lines = <<>> THEN <<>>
    ELSE IF Len(lines) = 1 THEN Head(lines)
    ELSE Head(lines) \o sep \o JoinLines(sep, Tail(lines))

\* str.splitlines(): a trailing newline opens no further line
RECURSIVE SplitFrom(_, _, _)
SplitFrom(text, cur, acc) ==
    IF text = <<>> THEN (IF cur = <<>> THEN acc ELSE Append(acc, cur))
    ELSE IF Head(text) = NL THEN SplitFrom(Tail(text), <<>>, Append(acc, cur))
    ELSE SplitFrom(Tail(text), Append(cur, Head(text)), acc)

splitlines(text) == SplitFrom(text, <<>>, <<>>)

IsSpace(tok) == tok = " "

\* str.lstrip()
RECURSIVE lstrip(_)
lstrip(l) == IF l # <<>> /\ IsSpace(Head(l)) THEN lstrip(Tail(l)) ELSE l

\* truth of l.strip(): some character of l is not white space
StripNonEmpty(l) == \E i \in 1..Len(l) : ~IsSpace(l[i])

\* l.startswith(("-", bullet))
StartsWithMarker(l) == l # <<>> /\ Head(l) \in {"-", Bullet}

-----------------------------------------------------------------------------
(* Engine page: data, window, aggregates *)

\* load_logs(): the fallback frame built when data/sensor_logs.csv is absent
DefaultVibration == <<41,50,75,72,48,79,55,71,42,58,76,40,54,73,43,56>>
DefaultTemperature == <<74,78,86,88,80,90,82,89,76,83,92,75,81,91,77,82>>
DefaultErrors == <<"OK","OK","E42","OK","OK","E42","OK","OK","OK","OK","OK","OK","OK","OK","OK","OK">>

DefaultLogs ==
    [i \in 1..Len(DefaultVibration) |->
        [timestamp |-> 5 * (i - 1), vibration |-> DefaultVibration[i],
         temperature |-> DefaultTemperature[i], error_code |-> DefaultErrors[i]]]

\* the slider's values: 10 to 240 in steps of 10, 60 at the start
SliderValues == {10 * i : i \in 1..24}
SliderDefault == 60

\* df["timestamp"].max(); NaT (here -1) for no row
RECURSIVE SeqMax(_)
SeqMax(s) ==
    IF s = <<>> THEN -1
    ELSE LET m == SeqMax(Tail(s)) IN IF Head(s) > m THEN Head(s) ELSE m

end_time_of(frame) == SeqMax(Column(frame, "timestamp"))

\* window_df with the start of the window left out (> for >=)
window_of_open_start(frame, minutes) ==
    LET end_time == end_time_of(frame)
        start_time == end_time - minutes
    IN SelectSeq(frame, LAMBDA row : row.timestamp > start_time /\ row.timestamp <= end_time)

\* window_df = df[(df["timestamp"]>=start_time) & (df["timestamp"]<=end_time)];
\* a frame without rows has no row to compare with NaT
window_of(frame, minutes) ==
    LET end_time == end_time_of(frame)
        start_time == end_time - minutes
    IN SelectSeq(frame, LAMBDA row : row.timestamp >= start_time /\ row.timestamp <= end_time)

window_df == window_of(df, window_minutes)

-----------------------------------------------------------------------------
(* Engine page: rule_based_advice *)

TailCount == 20
VibLimit == 70
TempLimit == 85

VibFinding == "High vibration indicates possible bearing wear/misalignment."
VibAction == "Reduce RPM by 10%, schedule bearing inspection in 24-48h."
VibEta == "Likely failure within 3-5 days if untreated."
TempFinding == "Thermal stress risk (elevated temperature)."
TempAction == "Check coolant/airflow; clean filters; consider load balancing."
TempEta == "Heat-related degradation possible in 1-2 weeks if persistent."
FaultFinding == "Repeat fault E42 (drive anomaly)."
FaultAction == "Run drive diagnostics; verify power quality and cable integrity."
QuietFinding == "No critical anomalies in the window."
QuietAction == "Continue normal monitoring; set alert thresholds Vib>7, Temp>85C."
QuietEta == "No imminent failure indicated."
DefaultEta == "N/A"

\* risk, actions = [], []; eta = "N/A"
EmptyLocals == [risk |-> <<>>, actions |-> <<>>, eta |-> DefaultEta]

\* v taken over the whole slice, without tail(20)
vibration_mean_whole_slice(df_slice) == mean(Column(df_slice, "vibration"))

\* v = df_slice["vibration"].tail(20).mean()
vibration_mean(df_slice) == mean(tail(Column(df_slice, "vibration"), TailCount))

\* t = df_slice["temperature"].tail(20).mean()
temperature_mean(df_slice) == mean(tail(Column(df_slice, "temperature"), TailCount))

\* if v > 7: ...
vibration_rule(s, df_slice) ==
    IF MeanGT(vibration_mean(df_slice), VibLimit)
    THEN [risk |-> Append(s.risk, VibFinding),
          actions |-> Append(s.actions, VibAction),
          eta |-> VibEta]
    ELSE s

\* the temperature rule without its actions.append
temperature_rule_no_action(s, df_slice) ==
    IF MeanGT(temperature_mean(df_slice), TempLimit)
    THEN [risk |-> Append(s.risk, TempFinding),
          actions |-> s.actions,
          eta |-> IF s.eta = DefaultEta THEN TempEta ELSE s.eta]
    ELSE s

\* the temperature rule without its `if eta == "N/A"` guard
temperature_rule_overwrites(s, df_slice) ==
    IF MeanGT(temperature_mean(df_slice), TempLimit)
    THEN [risk |-> Append(s.risk, TempFinding),
          actions |-> Append(s.actions, TempAction),
          eta |-> TempEta]
    ELSE s

\* if t > 85: ...
temperature_rule(s, df_slice) ==
    IF MeanGT(temperature_mean(df_slice), TempLimit)
    THEN [risk |-> Append(s.risk, TempFinding),
          actions |-> Append(s.actions, TempAction),
          eta |-> IF s.eta = DefaultEta THEN TempEta ELSE s.eta]
    ELSE s

\* the fault rule giving a time estimate of its own when none is set
fault_rule_sets_eta(s, df_slice) ==
    IF Contains(Column(df_slice, "error_code"), "E42")
    THEN [risk |-> Append(s.risk, FaultFinding),
          actions |-> Append(s.actions, FaultAction),
          eta |-> IF s.eta = DefaultEta THEN "Diagnose the drive within 24-48h." ELSE s.eta]
    ELSE s

\* if "E42" in df_slice["error_code"].values: ...
fault_rule(s, df_slice) ==
    IF Contains(Column(df_slice, "error_code"), "E42")
    THEN [risk |-> Append(s.risk, FaultFinding),
          actions |-> Append(s.actions, FaultAction),
          eta |-> s.eta]
    ELSE s

\* the `if not risk:` block without its assignment to eta
quiet_rule_keeps_eta(s) ==
    IF s.risk = <<>>
    THEN [risk |-> Append(s.risk, QuietFinding),
          actions |-> Append(s.actions, QuietAction),
          eta |-> s.eta]
    ELSE s

\* if not risk: ...
quiet_rule(s) ==
    IF s.risk = <<>>
    THEN [risk |-> Append(s.risk, QuietFinding),
          actions |-> Append(s.actions, QuietAction),
          eta |-> QuietEta]
    ELSE s

\* an evaluation that reads the description: nothing to report on an empty one
rule_based_locals_reads_prompt(df_slice, user_prompt) ==
    IF user_prompt = "" THEN quiet_rule(EmptyLocals)
    ELSE quiet_rule(fault_rule(temperature_rule(vibration_rule(EmptyLocals, df_slice),
                                                df_slice), df_slice))

\* risk, actions and eta of rule_based_advice when it composes msg
rule_based_locals(df_slice, user_prompt) ==
    quiet_rule(fault_rule(temperature_rule(vibration_rule(EmptyLocals, df_slice),
                                           df_slice), df_slice))

BulletSep == <<NL, "-", " ">>

\* the four msg = / msg += lines
compose_msg(s) ==
    <<"**Assessment**">> \o BulletSep \o Join(BulletSep, s.risk)
    \o <<NL, NL, "**Recommended Actions (next 24-48h)**">> \o BulletSep
    \o Join(BulletSep, s.actions)
    \o <<NL, NL, "**Estimated Time-to-Attention**:", " ", s.eta>>
    \o <<NL, NL, "**Notes**:", " ", "Capture fix as a reusable component and add to playbook.">>

rule_based_advice(df_slice, user_prompt) ==
    compose_msg(rule_based_locals(df_slice, user_prompt))

-----------------------------------------------------------------------------
(* Engine page: the remaining-useful-life estimate *)

RulTailCount == 20
RulVibLimit == 70
RulTempLimit == 85
RulBase == 7
VibPenalty == 3
TempPenalty == 2
RulFloor == 1

\* avg_v taken over the whole window, without tail(20)
avg_v_whole_window(frame) == mean(Column(frame, "vibration"))

\* avg_v = window_df["vibration"].tail(20).mean()
avg_v(frame) == mean(tail(Column(frame, "vibration"), RulTailCount))

\* avg_t = window_df["temperature"].tail(20).mean()
avg_t(frame) == mean(tail(Column(frame, "temperature"), RulTailCount))

\* a comparison as a number: True is 1, False is 0
BoolInt(b) == IF b THEN 1 ELSE 0

\* max(a, b)
max(a, b) == IF a >= b THEN a ELSE b

\* rul_days = max(1, 7 - int((avg_v>7)*3 + (avg_t>85)*2)) on the window frame
rul_days_of(frame) ==
    max(RulFloor,
        RulBase - (BoolInt(MeanGT(avg_v(frame), RulVibLimit)) * VibPenalty
                   + BoolInt(MeanGT(avg_t(frame), RulTempLimit)) * TempPenalty))

rul_days == rul_days_of(window_df)

-----------------------------------------------------------------------------
(* Engine page: llm_advice *)

\* classes of the exceptions the calls raise; all derive from Exception
ExceptionClasses == {"ImportError", "AttributeError", "APIConnectionError"}

\* isinstance(exc, cls) for the two classes the handlers name
IsInstance(exc, cls) ==
    \/ cls = "Exception" /\ exc \in ExceptionClasses
    \/ cls = exc

KeyNote == <<"OpenAI key not configured;", " ", "using rule-based advice instead.">>
FailNote(exc) == <<"LLM call failed (", exc, ");", " ", "using rule-based advice instead.">>

Return(text) == [kind |-> "return", text |-> text, exc |-> "(none)"]
Raise(exc) == [kind |-> "raise", text |-> NoText, exc |-> exc]

\* the environments of a call: the credential, whether `import openai` works,
\* and what each call shape does ("ok", or the class of what it raises)
CallResults == {"ok", "AttributeError", "APIConnectionError"}
Environments ==
    [key : {"", "sk-test"}, importable : BOOLEAN, modern : CallResults, legacy : CallResults]

\* the inner try: the v1.x call, and the 0.x call when that raises AttributeError
llm_calls(env, reply) ==
    IF env.modern = "ok" THEN Return(reply)
    ELSE IF IsInstance(env.modern, "AttributeError")
         THEN (IF env.legacy = "ok" THEN Return(reply) ELSE Raise(env.legacy))
         ELSE Raise(env.modern)

\* the body of the outer try
llm_body(env, reply) ==
    IF env.key = "" THEN Return(KeyNote)
    ELSE IF ~env.importable THEN Raise("ImportError")
    ELSE llm_calls(env, reply)

\* llm_advice whose outer handler names AttributeError instead of Exception
llm_advice_narrow_except(user_prompt, df_slice, env, reply) ==
    LET r == llm_body(env, reply)
    IN IF r.kind = "raise" /\ IsInstance(r.exc, "AttributeError")
       THEN Return(FailNote(r.exc))
       ELSE r

\* def llm_advice(user_prompt, df_slice), run in environment env
llm_advice(user_prompt, df_slice, env, reply) ==
    LET r == llm_body(env, reply)
    IN IF r.kind = "raise" /\ IsInstance(r.exc, "Exception")
       THEN Return(FailNote(r.exc))
       ELSE r

-----------------------------------------------------------------------------
(* Engine page: make_concise *)

KeepCount == 3
Heading == "**Top-line Summary**"

\* lines without the `if l.strip()` filter
nonempty_lines_unfiltered(text) == splitlines(text)

\* lines = [l for l in text.splitlines() if l.strip()]
nonempty_lines(text) == SelectSeq(splitlines(text), StripNonEmpty)

\* the for loop over lines, from keep
RECURSIVE keep_loop(_, _)
keep_loop(lines, keep) ==
    IF lines = <<>> THEN keep
    ELSE LET l == Head(lines)
             kept == IF StartsWithMarker(lstrip(l)) THEN Append(keep, l) ELSE keep
         IN IF Len(kept) = KeepCount THEN kept ELSE keep_loop(Tail(lines), kept)

\* keep with the fallback taken whenever fewer than 3 bulleted lines were kept
keep_of_short_fallback(lines) ==
    LET keep == keep_loop(lines, <<>>)
    IN IF Len(keep) < KeepCount
       THEN SubSeq(lines, 1, IF Len(lines) < KeepCount THEN Len(lines) ELSE KeepCount)
       ELSE keep

\* if not keep: keep = lines[:3]
keep_of(lines) ==
    LET keep == keep_loop(lines, <<>>)
    IN IF keep = <<>> THEN SubSeq(lines, 1, IF Len(lines) < KeepCount THEN Len(lines) ELSE KeepCount)
       ELSE keep

\* def make_concise(text), reading the toggle
make_concise_with(text, toggle) ==
    IF ~toggle THEN text
    ELSE <<Heading, NL>> \o JoinLines(<<NL>>, keep_of(nonempty_lines(text)))

make_concise(text) == make_concise_with(text, concise)


-----------------------------------------------------------------------------
(* Aviation page: heuristic assessment *)

AviationTail == 12
AviationVibLimit == 70
EgtLimit == 620

\* len(pd.date_range(now - 60 min, now, freq="5min"))
AviationRows == (60 \div 5) + 1

AvVibFinding == "Vibration high - potential fan/LP spool imbalance."
AvVibAction == "Run borescope if persists; balance check on next ground slot."
AvEgtFinding == "EGT trending hot - check bleed/FADEC trims."
AvEgtAction == "Verify cooling/bleed; calibrate sensors in line with MEL."
AvFaultFinding == "Fault E42 observed - transient drive anomaly."
AvFaultAction == "Pull quick access recorder; inspect harness/connector."
AvQuietFinding == "No critical anomaly in last hour."
AvQuietAction == "Continue normal ops; set alert thresholds Vib>7.0, EGT>620C."

\* has_fault = (df["fault_code"].tail(12) == "E42").any()
aviation_has_fault(frame) == Contains(tail(Column(frame, "fault_code"), AviationTail), "E42")

\* one `if cond: risk.append(f); actions.append(a)` block
append_if(cond, s, finding, action) ==
    IF cond
    THEN [risk |-> Append(s.risk, finding), actions |-> Append(s.actions, action), eta |-> s.eta]
    ELSE s

\* the block from `avg_vib = ...` to the `if not risk:` block
aviation_assessment(frame) ==
    LET avg_vib == mean(tail(Column(frame, "engine_vibration"), AviationTail))
        avg_egt == mean(tail(Column(frame, "egt"), AviationTail))
        s1 == append_if(MeanGT(avg_vib, AviationVibLimit), EmptyLocals, AvVibFinding, AvVibAction)
        s2 == append_if(MeanGT(avg_egt, EgtLimit), s1, AvEgtFinding, AvEgtAction)
        s3 == append_if(aviation_has_fault(frame), s2, AvFaultFinding, AvFaultAction)
    IN append_if(s3.risk = <<>>, s3, AvQuietFinding, AvQuietAction)

-----------------------------------------------------------------------------
(* Healthcare page: heuristic assessment *)

HealthcareTail == 18
MagnetLimit == 46
HeliumLimit == 75

\* len(pd.date_range(now - 90 min, now, freq="5min"))
HealthcareRows == (90 \div 5) + 1

HcTempFinding == "Magnet temp trending high (cooling efficiency risk)."
HcTempAction == "Check cryo-cooler and room HVAC; inspect chiller loop."
HcHeFinding == "Helium level trending low (quench risk if ignored)."
HcHeAction == "Plan top-up; verify boil-off rate and seals."
HcFaultFinding == "CRYO_WARN observed - intermittent cryo warning."
HcFaultAction == "Run OEM diagnostics; validate sensor calibration."
HcQuietFinding == "No critical anomaly in last 90 minutes."
HcQuietAction == "Continue monitoring; alerts at Temp>4.6 K, He<75%."

\* has_fault = (df["fault_code"].tail(18) == "CRYO_WARN").any()
healthcare_has_fault(frame) ==
    Contains(tail(Column(frame, "fault_code"), HealthcareTail), "CRYO_WARN")

\* the block from `avg_temp = ...` to the `if not risk:` block
healthcare_assessment(frame) ==
    LET avg_temp == mean(tail(Column(frame, "magnet_temp"), HealthcareTail))
        avg_he == mean(tail(Column(frame, "helium_level"), HealthcareTail))
        s1 == append_if(MeanGT(avg_temp, MagnetLimit), EmptyLocals, HcTempFinding, HcTempAction)
        s2 == append_if(MeanLT(avg_he, HeliumLimit), s1, HcHeFinding, HcHeAction)
        s3 == append_if(healthcare_has_fault(frame), s2, HcFaultFinding, HcFaultAction)
    IN append_if(s3.risk = <<>>, s3, HcQuietFinding, HcQuietAction)

-----------------------------------------------------------------------------
(* Inputs: the data frames and texts the pages are run on *)

\* where a frame of n rows changes from its first kind of row to its second
Splits(n) == {0, 1, n \div 2}

\* n rows, the first k as row a and the others as row b, `step` minutes apart
BlockFrame(n, k, a, b, step) ==
    [i \in 1..n |-> [timestamp |-> step * (i - 1)] @@ (IF i <= k THEN a ELSE b)]

EngineRows ==
    {[vibration |-> 60, temperature |-> 80, error_code |-> "OK"],
     [vibration |-> 70, temperature |-> 85, error_code |-> "OK"],
     [vibration |-> 80, temperature |-> 80, error_code |-> "OK"],
     [vibration |-> 60, temperature |-> 90, error_code |-> "OK"],
     [vibration |-> 80, temperature |-> 90, error_code |-> "OK"],
     [vibration |-> 60, temperature |-> 80, error_code |-> "E42"]}

\* the lengths of the frames in time order: up to 2 rows, and from one row
\* less than the trailing count to MaxSamples rows
SampleCounts == (0..2) \cup ((TailCount - 1)..MaxSamples)

\* a CSV of up to MaxSamples rows one minute apart, in time order
OrderedFrames ==
    UNION {{BlockFrame(n, k, a, b, 1) : k \in Splits(n), a \in EngineRows, b \in EngineRows} :
           n \in SampleCounts}

RECURSIVE SeqsUpTo(_, _)
SeqsUpTo(S, n) ==
    IF n = 0 THEN {<<>>}
    ELSE LET shorter == SeqsUpTo(S, n - 1)
         IN shorter \cup {Append(q, x) : q \in {r \in shorter : Len(r) = n - 1}, x \in S}

\* a CSV whose rows are in no order of time
ShuffledFrames ==
    {[i \in 1..Len(ts) |-> [timestamp |-> ts[i], vibration |-> 80, temperature |-> 80,
                            error_code |-> "OK"]] : ts \in SeqsUpTo({0, 10, 20, 30}, MaxShuffled)}

EngineFrames == {DefaultLogs} \cup OrderedFrames \cup ShuffledFrames

AviationRowKinds ==
    [engine_vibration : {70, 80}, egt : {620, 640}, fault_code : {"OK", "E42"}]

AviationFrames ==
    {BlockFrame(AviationRows, k, a, b, 5) :
        k \in Splits(AviationRows), a \in AviationRowKinds, b \in AviationRowKinds}

HealthcareRowKinds ==
    [magnet_temp : {46, 48}, helium_level : {70, 75}, fault_code : {"OK", "CRYO_WARN"}]

HealthcareFrames ==
    {BlockFrame(HealthcareRows, k, a, b, 5) :
        k \in Splits(HealthcareRows), a \in HealthcareRowKinds, b \in HealthcareRowKinds}

\* an answer of the external service with four bulleted lines
SampleReply ==
    <<"Summary", NL, "-", " ", "Vibration anomaly", NL, "-", " ", "Thermal drift", NL,
      Bullet, " ", "Inspect bearing", NL, "-", " ", "Check coolant">>

DefaultPrompt == "Vibration spike on Station 2; temps rising from 75 to 92C within 20 min. Error E42 occurred twice."

\* the descriptions the three preset buttons store in st.session_state.prompt
PresetPrompts ==
    {"Temperature trending above 85C on Station 2; cooling possibly impaired.",
     "Vibration above 7.0 on Station 2; potential bearing wear or misalignment.",
     "Repeated fault E42 on Station 2; suspected drive anomaly or power quality issue."}

\* the descriptions typed into the text area: none, and one of the user's own
TypedPrompts == {"", "Station 4 sounds rough since the belt change."}

\* the environments the model runs llm_advice in
CheckedEnvironments ==
    {env \in Environments :
        /\ env.key = "" => env.importable /\ env.modern = "ok" /\ env.legacy = "ok"
        /\ ~env.importable => env.modern = "ok" /\ env.legacy = "ok"
        /\ env.modern # "AttributeError" => env.legacy = "ok"}

-----------------------------------------------------------------------------
(* Digital Twin page: the scenario store *)

\* most presses of "Save scenario" in a session
MaxSaves == 3

\* load_schedule() without data/line_schedule.csv: 8 slots of 30 minutes, 8 units each
DefaultSchedule == [i \in 1..8 |-> [slot |-> i, planned_minutes |-> 30, planned_units |-> 8]]

\* presentation mode: power_factor = 1.05 (in hundredths), downtime_buffer = 15,
\* peak_tariff = 0.12 (in cents per kWh)
power_factor == 105
downtime_buffer == 15
peak_tariff == 12

\* the sliders at their default positions
DefaultControls ==
    [shift_hours |-> 8, test_time_min |-> 30, utilization |-> 80, parallel_stations |-> 3]

\* the slider positions the model moves to: the default and one station more
ControlChoices ==
    [shift_hours : {8}, test_time_min : {30}, utilization : {80}, parallel_stations : {3, 4}]

\* the names typed into "Save scenario as"
NameChoices == {"", "Baseline", "+1 Station"}

\* if "scenarios" not in st.session_state: st.session_state.scenarios = {}
NoScenarios == [k \in {} |-> {}]

\* effective_minutes = shift_hours * 60 - downtime_buffer
effective_minutes(c) == c.shift_hours * 60 - downtime_buffer

\* int(np.floor(effective_minutes / cycle_with_buffer) * parallel_stations), with
\* cycle_with_buffer = test_time_min * (100/utilization)
units_capacity(c) ==
    ((effective_minutes(c) * c.utilization) \div (c.test_time_min * 100)) * c.parallel_stations

\* df["planned_units"].sum()
planned_units(schedule) == SeqSum(Column(schedule, "planned_units"))

\* max(0, planned_units - units_capacity) * (cycle_with_buffer / parallel_stations),
\* in thousandths of a minute
overrun_minutes(schedule, c) ==
    LET shortfall == planned_units(schedule) - units_capacity(c)
    IN (IF shortfall > 0 THEN shortfall ELSE 0)
       * ((c.test_time_min * 100000) \div (c.utilization * c.parallel_stations))

\* float(f"{energy_total_kwh:.2f}") in hundredths of a kWh, with
\* energy_total_kwh = units_capacity * 2.0 * power_factor
kwh(c) == units_capacity(c) * 2 * power_factor

\* float(f"{energy_cost:.2f}") in cents, with energy_cost = energy_total_kwh * peak_tariff:
\* the hundredths of a kWh times the cents, rounded to the nearest cent
cost(c) == (kwh(c) * peak_tariff + 5000) \div 10000

\* dict(planned=..., capacity=..., overrun=..., kwh=..., cost=...)
snapshot_of(schedule, c) ==
    [planned |-> planned_units(schedule), capacity |-> units_capacity(c),
     overrun |-> overrun_minutes(schedule, c), kwh |-> kwh(c), cost |-> cost(c)]

\* st.session_state.scenarios[name] = dict(...)
store_put(store, key, snapshot) ==
    [k \in (DOMAIN store) \cup {key} |-> IF k = key THEN snapshot ELSE store[k]]

\* the store after a press of "Save scenario" that skips the test of name
save_scenario_unguarded(store, key, snapshot) == store_put(store, key, snapshot)

\* if st.button("Save scenario") and name: st.session_state.scenarios[name] = dict(...)
save_scenario(store, key, snapshot) ==
    IF key # "" THEN store_put(store, key, snapshot) ELSE store

\* the Digital Twin page has not been opened in this session
SchedulingUnvisited ==
    /\ scenarios = NoScenarios
    /\ name = ""
    /\ controls = DefaultControls
    /\ saves = <<>>

-----------------------------------------------------------------------------
(* The pages as state machines *)

\* the engine page after its first run: widgets at their defaults, no analysis
EngineStart(frame, reply) ==
    /\ page = "engine"
    /\ prompt = DefaultPrompt
    /\ df = frame
    /\ window_minutes = SliderDefault
    /\ use_llm = FALSE
    /\ concise = TRUE
    /\ llm_reply = reply
    /\ llm_env = NoEnv
    /\ outcome = "idle"
    /\ assessment = NoAssessment
    /\ raw = NoText
    /\ shown = NoText
    /\ ticket = NoTicket
    /\ first_eval = NoEval
    /\ SchedulingUnvisited

\* an aviation or healthcare page after a run on frame
TwinRun(which, frame, result) ==
    /\ page = which
    /\ prompt = DefaultPrompt
    /\ df = frame
    /\ window_minutes = SliderDefault
    /\ use_llm = FALSE
    /\ concise = TRUE
    /\ llm_reply = NoText
    /\ llm_env = NoEnv
    /\ outcome = "shown"
    /\ assessment = result
    /\ raw = NoText
    /\ shown = NoText
    /\ ticket = NoTicket
    /\ first_eval = NoEval
    /\ SchedulingUnvisited

Init ==
    \/ \E frame \in EngineFrames : EngineStart(frame, SampleReply)
    \/ \E frame \in AviationFrames : TwinRun("aviation", frame, aviation_assessment(frame))
    \/ \E frame \in HealthcareFrames : TwinRun("healthcare", frame, healthcare_assessment(frame))

\* a run of the engine page in which the Analyze button is not pressed
Idle ==
    /\ llm_env' = NoEnv
    /\ outcome' = "idle"
    /\ assessment' = NoAssessment
    /\ raw' = NoText
    /\ shown' = NoText
    /\ ticket' = NoTicket

\* if st.button("Export as maintenance ticket (CSV)"): ticket = pd.DataFrame([{...}]);
\* the Analyze button is not pressed in this run
Export ==
    /\ page = "engine"
    /\ ticket' = [issue |-> prompt, rul_days |-> rul_days]
    /\ llm_env' = NoEnv
    /\ outcome' = "idle"
    /\ assessment' = NoAssessment
    /\ raw' = NoText
    /\ shown' = NoText
    /\ UNCHANGED <<page, prompt, df, window_minutes, use_llm, concise, llm_reply,
                   first_eval, scheduling>>

\* the slider is moved
SetWindow(minutes) ==
    /\ page = "engine"
    /\ minutes # window_minutes
    /\ window_minutes' = minutes
    /\ Idle
    /\ UNCHANGED <<page, prompt, df, use_llm, concise, llm_reply, first_eval, scheduling>>

\* a preset button is pressed: st.session_state.prompt = ..., shown by the text area
PresetPrompt(text) ==
    /\ page = "engine"
    /\ prompt' = text
    /\ Idle
    /\ UNCHANGED <<page, df, window_minutes, use_llm, concise, llm_reply, first_eval,
                   scheduling>>

\* the text area "Issue / new log lines" is edited
EditPrompt(text) ==
    /\ page = "engine"
    /\ text # prompt
    /\ prompt' = text
    /\ Idle
    /\ UNCHANGED <<page, df, window_minutes, use_llm, concise, llm_reply, first_eval,
                   scheduling>>

\* the toggle "Use OpenAI" is flipped
ToggleLLM ==
    /\ page = "engine"
    /\ use_llm' = ~use_llm
    /\ Idle
    /\ UNCHANGED <<page, prompt, df, window_minutes, concise, llm_reply, first_eval,
                   scheduling>>

\* the toggle "3-sentence summary" is flipped
ToggleConcise ==
    /\ page = "engine"
    /\ concise' = ~concise
    /\ Idle
    /\ UNCHANGED <<page, prompt, df, window_minutes, use_llm, llm_reply, first_eval,
                   scheduling>>

\* if st.button("Analyze"): ..., the external service behaving as env
\* (llm_advice is not called, and env is NoEnv, when the toggle is off)
Analyze(env) ==
    /\ page = "engine"
    /\ LET r == IF use_llm THEN llm_advice(prompt, window_df, env, llm_reply)
                ELSE Return(rule_based_advice(window_df, prompt))
       IN /\ outcome' = IF r.kind = "raise" THEN "raised" ELSE "shown"
          /\ raw' = r.text
          /\ shown' = IF r.kind = "raise" THEN NoText ELSE make_concise(r.text)
    /\ llm_env' = env
    /\ assessment' = IF use_llm THEN NoAssessment ELSE rule_based_locals(window_df, prompt)
    /\ ticket' = NoTicket
    /\ first_eval' = IF use_llm \/ first_eval.made THEN first_eval
                     ELSE [made |-> TRUE, slice |-> window_df, prompt |-> prompt,
                           locals |-> rule_based_locals(window_df, prompt),
                           msg |-> rule_based_advice(window_df, prompt)]
    /\ UNCHANGED <<page, prompt, df, window_minutes, use_llm, concise, llm_reply,
                   scheduling>>

\* a rerun of the aviation page: a new random frame, assessed
RunAviation(frame) ==
    /\ page = "aviation"
    /\ df' = frame
    /\ assessment' = aviation_assessment(frame)
    /\ UNCHANGED <<page, prompt, window_minutes, use_llm, concise, llm_reply, llm_env,
                   outcome, raw, shown, ticket, first_eval, scheduling>>

\* a rerun of the healthcare page: a new random frame, assessed
RunHealthcare(frame) ==
    /\ page = "healthcare"
    /\ df' = frame
    /\ assessment' = healthcare_assessment(frame)
    /\ UNCHANGED <<page, prompt, window_minutes, use_llm, concise, llm_reply, llm_env,
                   outcome, raw, shown, ticket, first_eval, scheduling>>

\* the slider positions the model moves to
WindowChoices == {10, 20, 60}

Next ==
    \/ \E minutes \in WindowChoices : SetWindow(minutes)
    \/ ToggleLLM
    \/ ToggleConcise
    \/ \E env \in (IF use_llm THEN CheckedEnvironments ELSE {NoEnv}) : Analyze(env)
    \/ Export
    \/ \E frame \in AviationFrames : RunAviation(frame)
    \/ \E frame \in HealthcareFrames : RunHealthcare(frame)

Spec == Init /\ [][Next]_vars


-----------------------------------------------------------------------------
(* The engine page run on the answers of the external service *)

\* the lines an answer is made of: empty, blank, bulleted with either marker
\* (one of them indented), plain, and plain with a dash inside
LineKinds ==
    {<<>>, <<" ">>, <<"-", " ", "a">>, <<" ", Bullet, " ", "b">>, <<"c">>, <<"d", " ", "-">>}

\* the answers: up to MaxLines lines
ReplyTexts == {JoinLines(<<NL>>, lines) : lines \in SeqsUpTo(LineKinds, MaxLines)}

\* an environment in which the v1.x call answers
AnsweringEnv == [key |-> "sk-test", importable |-> TRUE, modern |-> "ok", legacy |-> "ok"]

InitConcise == \E reply \in ReplyTexts : EngineStart(DefaultLogs, reply)

NextConcise ==
    \/ ToggleLLM
    \/ ToggleConcise
    \/ \E env \in (IF use_llm THEN {AnsweringEnv} ELSE {NoEnv}) : Analyze(env)

SpecConcise == InitConcise /\ [][NextConcise]_vars


-----------------------------------------------------------------------------
(* Vocabulary of the properties *)

\* the engine page shows an analysis made by rule_based_advice
RuleAnalysisShown == page = "engine" /\ outcome = "shown" /\ ~use_llm

\* the Analyze handler has run with the external path selected
LlmAnalysisRun == page = "engine" /\ outcome # "idle" /\ use_llm

\* the call for a narrative fails in environment env
CallFails(env) ==
    \/ env.key = ""
    \/ ~env.importable
    \/ env.modern \notin {"ok", "AttributeError"}
    \/ env.modern = "AttributeError" /\ env.legacy # "ok"

FallbackNote == "using rule-based advice instead."

\* the engine page shows a condensed text
CondensedShown == page = "engine" /\ outcome = "shown" /\ concise

\* the first n items of s, all of them when there are fewer
FirstN(s, n) == SubSeq(s, 1, IF Len(s) < n THEN Len(s) ELSE n)

IsBulleted(l) == StartsWithMarker(lstrip(l))

\* the lines of text that are not blank, and those of them that are bulleted
SolidLines(text) == SelectSeq(splitlines(text), StripNonEmpty)
BulletedLines(text) == SelectSeq(SolidLines(text), IsBulleted)

\* the heading followed by lines
Summary(lines) == <<Heading, NL>> \o JoinLines(<<NL>>, lines)

\* a is b with some items left out
RECURSIVE IsSubsequence(_, _)
IsSubsequence(a, b) ==
    IF a = <<>> THEN TRUE
    ELSE IF b = <<>> THEN FALSE
    ELSE IF Head(a) = Head(b) THEN IsSubsequence(Tail(a), Tail(b))
    ELSE IsSubsequence(a, Tail(b))

\* a page shows the findings and actions of a rule evaluation
AssessmentShown == RuleAnalysisShown \/ page \in {"aviation", "healthcare"}

\* the last n items of s, all of them when there are fewer
Trailing(s, n) ==
    LET m == IF Len(s) < n THEN Len(s) ELSE n
    IN [i \in 1..m |-> s[Len(s) - m + i]]

\* the mean of the last n values of column col of frame is above limit
TrailingMeanAbove(frame, col, n, limit) ==
    LET xs == Trailing(Column(frame, col), n)
    IN Len(xs) > 0 /\ SeqSum(xs) > limit * Len(xs)

VibrationFires(frame) == TrailingMeanAbove(frame, "vibration", 20, 70)
TemperatureFires(frame) == TrailingMeanAbove(frame, "temperature", 20, 85)

\* token is the code of one of the last n rows of frame
FaultInTrailing(frame, col, n, token) ==
    \E i \in 1..Len(frame) : i > Len(frame) - n /\ frame[i][col] = token

\* token is the code of some row of frame
FaultAnywhere(frame, col, token) == \E i \in 1..Len(frame) : frame[i][col] = token

\* each finding with the action appended beside it
FindingActionPairs ==
    {<<VibFinding, VibAction>>, <<TempFinding, TempAction>>, <<FaultFinding, FaultAction>>,
     <<QuietFinding, QuietAction>>,
     <<AvVibFinding, AvVibAction>>, <<AvEgtFinding, AvEgtAction>>,
     <<AvFaultFinding, AvFaultAction>>, <<AvQuietFinding, AvQuietAction>>,
     <<HcTempFinding, HcTempAction>>, <<HcHeFinding, HcHeAction>>,
     <<HcFaultFinding, HcFaultAction>>, <<HcQuietFinding, HcQuietAction>>}

\* the no-anomaly Assessment of the engine page
CanonicalQuiet == [risk |-> <<QuietFinding>>, actions |-> <<QuietAction>>, eta |-> QuietEta]

\* the rows of df are in non-decreasing order of time
IsOrdered(frame) == \A i \in 1..(Len(frame) - 1) : frame[i].timestamp <= frame[i + 1].timestamp

\* the greatest timestamp of a frame with rows
Latest(frame) ==
    CHOOSE t \in {frame[i].timestamp : i \in 1..Len(frame)} :
        \A i \in 1..Len(frame) : frame[i].timestamp <= t

\* the indices of the rows of frame whose timestamp lies in [latest - minutes, latest]
InSpan(frame, minutes) ==
    IF frame = <<>> THEN {}
    ELSE LET latest == Latest(frame)
         IN {i \in 1..Len(frame) : /\ frame[i].timestamp >= latest - minutes
                                    /\ frame[i].timestamp <= latest}

\* how many members of S are at most i
Rank(S, i) == Cardinality({x \in S : x <= i})

\* w holds exactly the rows of frame with an index in S, in their order
IsSelection(w, frame, S) ==
    /\ Len(w) = Cardinality(S)
    /\ \A i \in S : w[Rank(S, i)] = frame[i]

\* the indices of the last n rows of frame
LastIndices(frame, n) == {i \in 1..Len(frame) : i > Len(frame) - n}

\* the last n rows of frame
Suffix(frame, n) == SubSeq(frame, Len(frame) - n + 1, Len(frame))

-----------------------------------------------------------------------------
(* C1 *)

\* C1: when the external path is selected and the call fails, the text the
\* Analyze action shows is the (condensed) rule-based narrative of
\* rule_based_advice for the same window.
C1_FallbackShowsRuleNarrative ==
    (LlmAnalysisRun /\ CallFails(llm_env)) =>
        /\ outcome = "shown"
        /\ shown = make_concise_with(rule_based_advice(window_df, prompt), concise)

-----------------------------------------------------------------------------
(* C2 *)

\* C2: llm_advice never raises: in every failure mode the handler gets a text,
\* and that text ends in the note 'using rule-based advice instead.', for a
\* missing credential as for a failed call.
C2_LlmAdviceReturnsText ==
    LlmAnalysisRun =>
        /\ outcome = "shown"
        /\ raw # NoText
        /\ CallFails(llm_env) => raw[Len(raw)] = FallbackNote

\* C2 witness: a v1.x call that failed on the network has been answered by the note
C2_NetworkFailureReturned ==
    /\ LlmAnalysisRun
    /\ llm_env.key # "" /\ llm_env.modern = "APIConnectionError"
    /\ outcome = "shown"
    /\ raw = FailNote("APIConnectionError")


-----------------------------------------------------------------------------
(* C3 *)

\* C3 as stated: the condensed text is the first 3 bulleted lines, and whenever
\* the text has fewer than 3 bulleted lines it is the first 3 non-empty lines.
C3_FewerThanThreeFallsBack ==
    CondensedShown =>
        shown = Summary(IF Len(BulletedLines(raw)) < 3
                        THEN FirstN(SolidLines(raw), 3)
                        ELSE FirstN(BulletedLines(raw), 3))

\* C3 as amended: the condensed text is the first 3 bulleted lines (all of them
\* when there are 1 or 2); only when the text has no bulleted line is it the
\* first 3 non-empty lines, in their order.
C3_NoBulletFallsBack ==
    CondensedShown =>
        shown = Summary(IF Len(BulletedLines(raw)) = 0
                        THEN FirstN(SolidLines(raw), 3)
                        ELSE FirstN(BulletedLines(raw), 3))

\* C3 witness: an answer with one or two bulleted lines after a plain line is
\* condensed to its bulleted lines alone
C3_ShortBulletListKept ==
    /\ CondensedShown /\ use_llm
    /\ Len(BulletedLines(raw)) \in {1, 2}
    /\ ~IsBulleted(SolidLines(raw)[1])
    /\ shown = Summary(BulletedLines(raw))

-----------------------------------------------------------------------------
(* C10 *)

\* C10: condensation is total: the condensed text is the heading followed by at
\* most 3 lines, each a non-empty line of the input, in their original order;
\* for the empty input it is the heading alone.
C10_CondensationTotal ==
    CondensedShown =>
        LET out == splitlines(shown)
            kept == Tail(out)
        IN /\ out # <<>> /\ Head(out) = <<Heading>>
           /\ shown = Summary(kept)
           /\ Len(kept) <= 3
           /\ \A i \in 1..Len(kept) : StripNonEmpty(kept[i])
           /\ IsSubsequence(kept, splitlines(raw))
           /\ raw = <<>> => shown = <<Heading, NL>>

\* C10 witness: an answer without bulleted line, one of its lines blank, is
\* condensed to its three non-empty lines
C10_PlainTextCondensed ==
    /\ CondensedShown /\ use_llm
    /\ BulletedLines(raw) = <<>>
    /\ Len(splitlines(raw)) > Len(SolidLines(raw))
    /\ Len(SolidLines(raw)) = 3
    /\ shown = Summary(SolidLines(raw))


-----------------------------------------------------------------------------
(* C4 *)

\* C4: a fault-code rule fires if and only if the fault token is in the
\* trailing slice of the window (the last 20, 12 or 18 samples); a token that
\* occurs only before the trailing slice does not fire it.
C4_FaultRuleIffInTrailingSlice ==
    /\ RuleAnalysisShown =>
          (Contains(assessment.risk, FaultFinding)
              <=> FaultInTrailing(window_df, "error_code", 20, "E42"))
    /\ page = "aviation" =>
          (Contains(assessment.risk, AvFaultFinding)
              <=> FaultInTrailing(df, "fault_code", 12, "E42"))
    /\ page = "healthcare" =>
          (Contains(assessment.risk, HcFaultFinding)
              <=> FaultInTrailing(df, "fault_code", 18, "CRYO_WARN"))

\* what the pages do: the aviation and healthcare rules look at the trailing
\* slice, the engine rule at the whole window
C4_FaultRulesOfThePages ==
    /\ RuleAnalysisShown =>
          (Contains(assessment.risk, FaultFinding)
              <=> FaultAnywhere(window_df, "error_code", "E42"))
    /\ page = "aviation" =>
          (Contains(assessment.risk, AvFaultFinding)
              <=> FaultInTrailing(df, "fault_code", 12, "E42"))
    /\ page = "healthcare" =>
          (Contains(assessment.risk, HcFaultFinding)
              <=> FaultInTrailing(df, "fault_code", 18, "CRYO_WARN"))

-----------------------------------------------------------------------------
(* C5 *)

\* C5: in every rule evaluation of the three pages the findings and the
\* actions have the same length, at least 1, and the action at index i is the
\* one paired with the finding at index i.
C5_FindingsPairedWithActions ==
    AssessmentShown =>
        /\ Len(assessment.risk) = Len(assessment.actions)
        /\ Len(assessment.risk) >= 1
        /\ \A i \in 1..Len(assessment.risk) :
              <<assessment.risk[i], assessment.actions[i]>> \in FindingActionPairs

\* C5 witness: all three rules of the engine page have fired
C5_ThreeRulesFired ==
    /\ RuleAnalysisShown
    /\ assessment.risk = <<VibFinding, TempFinding, FaultFinding>>
    /\ assessment.actions = <<VibAction, TempAction, FaultAction>>

-----------------------------------------------------------------------------
(* C6 *)

\* C6: first match wins for time-to-attention: whenever the vibration rule
\* fires, also together with the temperature rule, the time-to-attention is the
\* vibration rule's message; the message set by the temperature rule stays when
\* the later fault rule fires.
C6_FirstMatchWins ==
    RuleAnalysisShown =>
        /\ VibrationFires(window_df) => assessment.eta = VibEta
        /\ (~VibrationFires(window_df) /\ TemperatureFires(window_df)) => assessment.eta = TempEta

\* C6 witness: both rules fired and the vibration message is shown
C6_BothFired ==
    /\ RuleAnalysisShown
    /\ VibrationFires(window_df) /\ TemperatureFires(window_df)
    /\ assessment.risk = <<VibFinding, TempFinding>>
    /\ assessment.eta = VibEta

-----------------------------------------------------------------------------
(* C7 *)

\* C7: whenever no rule fires, and for an empty window, the Assessment is the
\* canonical no-anomaly Assessment (one sentinel finding, one sentinel action,
\* 'No imminent failure indicated.'), and the sentinel finding never appears
\* beside the finding of a fired rule.  (The fault rule is taken as the page
\* evaluates it: E42 anywhere in the window.)
C7_QuietAssessment ==
    RuleAnalysisShown =>
        /\ (/\ ~VibrationFires(window_df)
            /\ ~TemperatureFires(window_df)
            /\ ~FaultAnywhere(window_df, "error_code", "E42")) => assessment = CanonicalQuiet
        /\ window_df = <<>> => assessment = CanonicalQuiet
        /\ Contains(assessment.risk, QuietFinding) => assessment.risk = <<QuietFinding>>

\* C7 witness: an empty window has been analysed
C7_EmptyWindowAnalysed ==
    /\ RuleAnalysisShown
    /\ window_df = <<>>
    /\ assessment = CanonicalQuiet

-----------------------------------------------------------------------------
(* C8 *)

\* C8: the Assessment holds the bearing-wear finding, with the reduce-RPM
\* action at the same index, exactly when the mean of the last 20 vibration
\* samples of the window (of all when fewer) is strictly above 7.0.
C8_BearingWearIffTrailingMeanAbove ==
    RuleAnalysisShown =>
        (VibrationFires(window_df)
            <=> \E i \in 1..Len(assessment.risk) :
                    /\ assessment.risk[i] = VibFinding
                    /\ i <= Len(assessment.actions) /\ assessment.actions[i] = VibAction)

\* C8 witness: a window of more than 20 samples whose last 20 average above 7.0
\* while all of them average 7.0 or less
C8_TrailingAboveWholeNot ==
    /\ RuleAnalysisShown
    /\ Len(window_df) > 20
    /\ VibrationFires(window_df)
    /\ ~TrailingMeanAbove(window_df, "vibration", Len(window_df), 70)
    /\ assessment.risk[1] = VibFinding /\ assessment.actions[1] = VibAction

-----------------------------------------------------------------------------
(* C9 *)

-----------------------------------------------------------------------------
(* The Digital Twin page and its scenario store *)

\* the Digital Twin page after its first run: sliders at their defaults, no scenario
InitScenarios ==
    /\ page = "digital_twin"
    /\ df = DefaultSchedule
    /\ SchedulingUnvisited
    /\ prompt = DefaultPrompt
    /\ window_minutes = SliderDefault
    /\ use_llm = FALSE
    /\ concise = TRUE
    /\ llm_reply = NoText
    /\ llm_env = NoEnv
    /\ outcome = "idle"
    /\ assessment = NoAssessment
    /\ raw = NoText
    /\ shown = NoText
    /\ ticket = NoTicket
    /\ first_eval = NoEval

\* what the Digital Twin page leaves alone
assistant == <<page, prompt, df, window_minutes, use_llm, concise, llm_reply, llm_env,
               outcome, assessment, raw, shown, ticket, first_eval>>

\* a sidebar slider is moved
SetControls(c) ==
    /\ page = "digital_twin"
    /\ c # controls
    /\ controls' = c
    /\ UNCHANGED <<scenarios, name, saves, assistant>>

\* a name is typed into "Save scenario as"
SetName(n) ==
    /\ page = "digital_twin"
    /\ n # name
    /\ name' = n
    /\ UNCHANGED <<scenarios, controls, saves, assistant>>

\* "Save scenario" is pressed
SaveScenario ==
    /\ page = "digital_twin"
    /\ Len(saves) < MaxSaves
    /\ scenarios' = save_scenario(scenarios, name, snapshot_of(df, controls))
    /\ saves' = Append(saves, [name |-> name, snapshot |-> snapshot_of(df, controls)])
    /\ UNCHANGED <<name, controls, assistant>>

NextScenarios ==
    \/ \E c \in ControlChoices : SetControls(c)
    \/ \E n \in NameChoices : SetName(n)
    \/ SaveScenario

SpecScenarios == InitScenarios /\ [][NextScenarios]_vars

-----------------------------------------------------------------------------
(* C11: the scenario store *)

\* the presses of "Save scenario" made under name k
SavesUnder(k) == {i \in 1..Len(saves) : saves[i].name = k}

\* the greatest member of a non-empty set of numbers
Greatest(S) == CHOOSE i \in S : \A j \in S : j <= i

\* C11: after any sequence of presses of "Save scenario" the store holds exactly the
\* non-empty names saved under, none is ever missing, each maps to the snapshot of the
\* most recent press made under it, and a press with an empty name leaves no entry
C11_LastWriteWins ==
    page = "digital_twin" =>
        /\ DOMAIN scenarios = {saves[i].name : i \in 1..Len(saves)} \ {""}
        /\ \A k \in DOMAIN scenarios :
               LET last == Greatest(SavesUnder(k))
               IN scenarios[k] = saves[last].snapshot

\* C11 step by step: a press with an empty name changes nothing, a press under a name
\* changes that entry alone, and no step removes an entry
C11_SaveChangesOneEntry ==
    [][/\ DOMAIN scenarios \subseteq DOMAIN scenarios'
       /\ \A k \in DOMAIN scenarios :
              scenarios'[k] # scenarios[k] => saves' # saves /\ name = k
       /\ (saves' # saves /\ name = "") => scenarios' = scenarios]_vars

\* a name saved twice with different snapshots, another name saved in between
C11_Overwritten ==
    /\ page = "digital_twin"
    /\ Len(saves) = 3
    /\ saves[1].name = saves[3].name
    /\ saves[1].name # ""
    /\ saves[2].name \notin {"", saves[1].name}
    /\ saves[1].snapshot # saves[3].snapshot
    /\ scenarios[saves[3].name] = saves[3].snapshot
    /\ scenarios[saves[2].name] = saves[2].snapshot

-----------------------------------------------------------------------------
(* The engine page in a session in which the description changes *)

\* the log of a session: the default, and CSVs of TailCount + 1 rows whose first row
\* differs from the rest
SessionFrames ==
    {DefaultLogs}
    \cup {BlockFrame(TailCount + 1, 1, a, b, 1) : a \in EngineRows, b \in EngineRows}

InitSession == \E frame \in SessionFrames : EngineStart(frame, SampleReply)

NextSession ==
    \/ \E minutes \in WindowChoices : SetWindow(minutes)
    \/ \E text \in PresetPrompts : PresetPrompt(text)
    \/ \E text \in TypedPrompts : EditPrompt(text)
    \/ Analyze(NoEnv)

SpecSession == InitSession /\ [][NextSession]_vars

-----------------------------------------------------------------------------
(* C12: determinism of rule evaluation *)

\* two means are the same number, or both NaN
SameMean(m, n) ==
    IF m.count = 0 \/ n.count = 0 THEN m.count = n.count
    ELSE m.sum * n.count = n.sum * m.count

\* the codes in column col of frame
Codes(frame, col) == {frame[i][col] : i \in 1..Len(frame)}

\* two windows with the same trailing aggregates and the same fault codes
SameReadings(a, b) ==
    /\ SameMean(mean(Trailing(Column(a, "vibration"), 20)),
                mean(Trailing(Column(b, "vibration"), 20)))
    /\ SameMean(mean(Trailing(Column(a, "temperature"), 20)),
                mean(Trailing(Column(b, "temperature"), 20)))
    /\ Codes(a, "error_code") = Codes(b, "error_code")

\* C12: an analysis by rule_based_advice of a window with the same trailing aggregates
\* and the same fault codes as the window of the session's first evaluation shows the
\* Assessment of that evaluation, findings, actions, time-to-attention and text,
\* whatever the description is now and was then and whatever was evaluated in between
C12_SameWindowSameAssessment ==
    LET w == window_df
    IN (RuleAnalysisShown /\ first_eval.made /\ SameReadings(first_eval.slice, w)) =>
           /\ assessment = first_eval.locals
           /\ raw = first_eval.msg

\* a window with findings evaluated again under another description, the rows of the
\* two windows differing
C12_EvaluatedAgainOtherPrompt ==
    LET w == window_df
    IN /\ RuleAnalysisShown
       /\ first_eval.made
       /\ first_eval.prompt # prompt
       /\ first_eval.slice # w
       /\ SameReadings(first_eval.slice, w)
       /\ Len(assessment.risk) = 2
       /\ "" \in {prompt, first_eval.prompt}

-----------------------------------------------------------------------------
(* C13: the time-to-attention *)

\* the time-to-attention the text of the analysis ends its third paragraph with
EtaInText(text) ==
    {text[i + 2] : i \in {j \in 1..(Len(text) - 2) : text[j] = "**Estimated Time-to-Attention**:"}}

\* C13: in an analysis by rule_based_advice the time-to-attention is the vibration
\* message when the vibration rule fires, else the heat message when the temperature
\* rule fires, else "N/A" when the E42 rule fires, else the no-imminent-failure
\* message; it is "N/A" exactly when the E42 rule alone fires, the E42 finding then
\* being the one reported; and the text shows that time-to-attention
C13_EtaDeterminedByRules ==
    LET w == window_df
        vib == VibrationFires(w)
        temp == TemperatureFires(w)
        fault == FaultAnywhere(w, "error_code", "E42")
    IN RuleAnalysisShown =>
           /\ assessment.eta = IF vib THEN VibEta
                               ELSE IF temp THEN TempEta
                               ELSE IF fault THEN "N/A"
                               ELSE QuietEta
           /\ assessment.eta \in {VibEta, TempEta, "N/A", QuietEta}
           /\ (assessment.eta = "N/A") <=> (fault /\ ~vib /\ ~temp)
           /\ (assessment.eta = "N/A") => assessment.risk = <<FaultFinding>>
           /\ EtaInText(raw) = {assessment.eta}

\* an analysis in which the E42 rule alone has fired
C13_FaultOnlyNoEstimate ==
    /\ RuleAnalysisShown
    /\ assessment.risk = <<FaultFinding>>
    /\ assessment.eta = "N/A"
    /\ ~VibrationFires(window_df)
    /\ ~TemperatureFires(window_df)

-----------------------------------------------------------------------------
(* C14: the remaining-useful-life estimate *)

\* C14: on the engine page rul_days is one of 2, 4, 5 and 7, never below 1, and is 7
\* exactly when neither the trailing vibration mean is above 7.0 nor the trailing
\* temperature mean above 85; an exported ticket carries the description and the
\* rul_days of its run; an analysis by rule_based_advice, shown now or the session's
\* first on this window, reports a finding other than the no-anomaly one whenever
\* rul_days is below 7, and when the E42 rule alone fires it reports the E42 finding
\* while rul_days is 7
C14_RulConsistentWithAssessment ==
    LET w == window_df
        vib == VibrationFires(w)
        temp == TemperatureFires(w)
        fault == FaultAnywhere(w, "error_code", "E42")
        days == rul_days_of(w)
    IN page = "engine" =>
           /\ days \in {2, 4, 5, 7}
           /\ days >= 1
           /\ (days = 7) <=> (~vib /\ ~temp)
           /\ ticket # NoTicket => ticket = [issue |-> prompt, rul_days |-> days]
           /\ RuleAnalysisShown =>
                  /\ days < 7 => \E i \in 1..Len(assessment.risk) :
                                     assessment.risk[i] # QuietFinding
                  /\ (fault /\ ~vib /\ ~temp) =>
                         assessment.risk = <<FaultFinding>> /\ days = 7
           /\ (first_eval.made /\ first_eval.slice = w /\ days < 7) =>
                  \E i \in 1..Len(first_eval.locals.risk) :
                      first_eval.locals.risk[i] # QuietFinding

\* a ticket exported with 2 days for a window whose analysis reported two findings
C14_ExportedAfterAnalysis ==
    /\ page = "engine"
    /\ ticket # NoTicket
    /\ ticket.rul_days = 2
    /\ first_eval.made
    /\ first_eval.slice = window_df
    /\ first_eval.locals.risk = <<VibFinding, TempFinding>>

====
